---------------------------- MODULE Spec2Model ----------------------------
(***************************************************************************)
(* Model of the two variants of the news agent:                            *)
(*   src/mewnews.py         the broadcast server                           *)
(*   src/mewnews-client.py  the one-shot ("connect-send-disconnect")       *)
(*                          client                                         *)
(* Both are asyncio programs: one thread, tasks that run without           *)
(* interruption from one await to the next.  A task's position (the pc     *)
(* variables) is either a suspension point (an await that is pending) or a *)
(* running position; other tasks step only while the news task is         *)
(* suspended.                                                              *)
(*                                                                         *)
(* Text is modelled as a sequence of tokens, each a record [t, v]: t is    *)
(* the token's kind (punctuation is its own kind) and v the atoms (words)  *)
(* it carries.  A JSON value is a record [kind, s, items]; objects and     *)
(* lists are flat (their members are scalars).                             *)
(***************************************************************************)
EXTENDS Integers, Sequences, FiniteSets, TLC

\* Number of websocket handles (inbound connections) the server model accepts.
NumHandles == 2

Handles == 1..NumHandles

---------------------------------------------------------------------------
\* Text: tokens and atoms

Tok(t, v) == [t |-> t, v |-> v]

LBrace == Tok("{", <<>>)
RBrace == Tok("}", <<>>)
LBrack == Tok("[", <<>>)
RBrack == Tok("]", <<>>)
Colon  == Tok(":", <<>>)
Comma  == Tok(",", <<>>)
Fence  == Tok("fence", <<>>)   \* the three-backquote code fence
Space  == Tok("ws", <<" ">>)
Word(w) == Tok("word", <<w>>)
Str(atoms) == Tok("str", atoms)
Num(n) == Tok("num", <<n>>)
Null == Tok("null", <<"null">>)

ScalarKinds == {"str", "num", "null"}

\* The characters of a string literal's body as JSON writes them: a quote or a
\* backslash is preceded by a backslash.
RECURSIVE Escape(_)
Escape(atoms) ==
    IF atoms = <<>> THEN <<>>
    ELSE IF Head(atoms) \in {"\"", "\\"}
         THEN <<"\\", Head(atoms)>> \o Escape(Tail(atoms))
         ELSE <<Head(atoms)>> \o Escape(Tail(atoms))

RECURSIVE Unescape(_)
Unescape(atoms) ==
    IF atoms = <<>> THEN <<>>
    ELSE IF Head(atoms) = "\\" /\ Len(atoms) >= 2
         THEN <<atoms[2]>> \o Unescape(Tail(Tail(atoms)))
         ELSE <<Head(atoms)>> \o Unescape(Tail(atoms))

\* The atoms (characters) a token stands for in the text.
RenderTok(tok) ==
    IF tok.t = "str" THEN <<"\"">> \o tok.v \o <<"\"">>
    ELSE IF tok.t \in {"word", "num", "null", "ws"} THEN tok.v
    ELSE <<tok.t>>

RECURSIVE Render(_)
Render(toks) ==
    IF toks = <<>> THEN <<>> ELSE RenderTok(Head(toks)) \o Render(Tail(toks))

\* str.strip(): whitespace removed at both ends.
RECURSIVE LStrip(_)
LStrip(toks) ==
    IF toks # <<>> /\ Head(toks).t = "ws" THEN LStrip(Tail(toks)) ELSE toks

RECURSIVE RStrip(_)
RStrip(toks) ==
    IF toks # <<>> /\ toks[Len(toks)].t = "ws"
    THEN RStrip(SubSeq(toks, 1, Len(toks) - 1)) ELSE toks

Strip(toks) == RStrip(LStrip(toks))

\* content.replace(fence + "json", ""): every fence directly followed by the word json.
RECURSIVE RemoveFenceJson(_)
RemoveFenceJson(toks) ==
    IF toks = <<>> THEN <<>>
    ELSE IF Len(toks) >= 2 /\ toks[1] = Fence /\ toks[2] = Word("json")
         THEN RemoveFenceJson(Tail(Tail(toks)))
         ELSE <<Head(toks)>> \o RemoveFenceJson(Tail(toks))

\* content.replace(fence, "")
RemoveFence(toks) == SelectSeq(toks, LAMBDA tok : tok # Fence)

\* "NO_NEWS" in content: the sentinel anywhere in the text, inside a string
\* literal included.
HasSentinel(toks) ==
    \E i \in 1..Len(toks) : \E j \in 1..Len(toks[i].v) : toks[i].v[j] = "NO_NEWS"

---------------------------------------------------------------------------
\* JSON values

JScalar(kind, atoms) == [kind |-> kind, s |-> atoms, items |-> <<>>]
JStr(atoms) == JScalar("str", atoms)
JNone == JScalar("null", <<"null">>)
Member(key, vk, v) == [key |-> key, vk |-> vk, v |-> v]
JObj(items) == [kind |-> "obj", s |-> <<>>, items |-> items]
JList(items) == [kind |-> "list", s |-> <<>>, items |-> items]

NoWs(toks) == SelectSeq(toks, LAMBDA tok : tok.t # "ws")

ScalarOf(tok) ==
    IF tok.t = "str" THEN Member(<<>>, "str", Unescape(tok.v))
    ELSE Member(<<>>, tok.t, tok.v)

\* key : scalar { , key : scalar }
RECURSIVE ParseMembers(_)
ParseMembers(toks) ==
    IF Len(toks) >= 3 /\ toks[1].t = "str" /\ toks[2] = Colon
          /\ toks[3].t \in ScalarKinds
    THEN LET m == [ScalarOf(toks[3]) EXCEPT !.key = Unescape(toks[1].v)]
         IN  IF Len(toks) = 3 THEN [ok |-> TRUE, items |-> <<m>>]
             ELSE IF toks[4] = Comma
                  THEN LET rest == ParseMembers(SubSeq(toks, 5, Len(toks)))
                       IN  [ok |-> rest.ok, items |-> <<m>> \o rest.items]
                  ELSE [ok |-> FALSE, items |-> <<>>]
    ELSE [ok |-> FALSE, items |-> <<>>]

\* scalar { , scalar }
RECURSIVE ParseElements(_)
ParseElements(toks) ==
    IF Len(toks) >= 1 /\ toks[1].t \in ScalarKinds
    THEN LET m == ScalarOf(toks[1])
         IN  IF Len(toks) = 1 THEN [ok |-> TRUE, items |-> <<m>>]
             ELSE IF toks[2] = Comma
                  THEN LET rest == ParseElements(SubSeq(toks, 3, Len(toks)))
                       IN  [ok |-> rest.ok, items |-> <<m>> \o rest.items]
                  ELSE [ok |-> FALSE, items |-> <<>>]
    ELSE [ok |-> FALSE, items |-> <<>>]

\* json.loads: [ok, val]; ok is FALSE where json.loads raises.
json_loads(text) ==
    LET toks == NoWs(text)
        n == Len(toks)
        bad == [ok |-> FALSE, val |-> JNone]
    IN  IF n = 0 THEN bad
        ELSE IF n = 1
             THEN IF toks[1].t \in ScalarKinds
                  THEN LET m == ScalarOf(toks[1])
                       IN  [ok |-> TRUE, val |-> JScalar(m.vk, m.v)]
                  ELSE bad
        ELSE IF toks[1] = LBrace /\ toks[n] = RBrace
             THEN IF n = 2 THEN [ok |-> TRUE, val |-> JObj(<<>>)]
                  ELSE LET r == ParseMembers(SubSeq(toks, 2, n - 1))
                       IN  IF r.ok THEN [ok |-> TRUE, val |-> JObj(r.items)] ELSE bad
        ELSE IF toks[1] = LBrack /\ toks[n] = RBrack
             THEN IF n = 2 THEN [ok |-> TRUE, val |-> JList(<<>>)]
                  ELSE LET r == ParseElements(SubSeq(toks, 2, n - 1))
                       IN  IF r.ok THEN [ok |-> TRUE, val |-> JList(r.items)] ELSE bad
        ELSE bad

ScalarTok(vk, v) == IF vk = "str" THEN Str(Escape(v)) ELSE Tok(vk, v)

RECURSIVE DumpMembers(_)
DumpMembers(items) ==
    IF items = <<>> THEN <<>>
    ELSE LET m == Head(items)
             one == <<Str(Escape(m.key)), Colon, Space, ScalarTok(m.vk, m.v)>>
         IN  IF Len(items) = 1 THEN one
             ELSE one \o <<Comma, Space>> \o DumpMembers(Tail(items))

RECURSIVE DumpElements(_)
DumpElements(items) ==
    IF items = <<>> THEN <<>>
    ELSE LET m == Head(items)
             one == <<ScalarTok(m.vk, m.v)>>
         IN  IF Len(items) = 1 THEN one
             ELSE one \o <<Comma, Space>> \o DumpElements(Tail(items))

\* json.dumps(payload, ensure_ascii=False): the text written to the socket.
json_dumps(val) ==
    IF val.kind = "obj" THEN <<LBrace>> \o DumpMembers(val.items) \o <<RBrace>>
    ELSE IF val.kind = "list" THEN <<LBrack>> \o DumpElements(val.items) \o <<RBrack>>
    ELSE <<ScalarTok(val.kind, val.s)>>

---------------------------------------------------------------------------
\* Python's operations on the parsed payload

HasKey(val, key) == \E i \in 1..Len(val.items) : val.items[i].key = key

\* "type" not in payload: a key of a dict, an element of a list, a substring of
\* a str; a TypeError for a number or None.
PyNotIn(atom, val) ==
    IF val.kind = "obj" THEN IF HasKey(val, <<atom>>) THEN "false" ELSE "true"
    ELSE IF val.kind = "list"
         THEN IF \E i \in 1..Len(val.items) :
                    val.items[i].vk = "str" /\ val.items[i].v = <<atom>>
              THEN "false" ELSE "true"
    ELSE IF val.kind = "str"
         THEN IF \E i \in 1..Len(val.s) : val.s[i] = atom THEN "false" ELSE "true"
    ELSE "TypeError"

\* repr() of a scalar and str() of a dict
PyReprScalar(vk, v) ==
    IF vk = "str" THEN <<"'">> \o v \o <<"'">>
    ELSE IF vk = "null" THEN <<"None">> ELSE v

RECURSIVE PyReprMembers(_)
PyReprMembers(items) ==
    IF items = <<>> THEN <<>>
    ELSE LET m == Head(items)
             one == <<"'">> \o m.key \o <<"'", ":", " ">> \o PyReprScalar(m.vk, m.v)
         IN  IF Len(items) = 1 THEN one
             ELSE one \o <<",", " ">> \o PyReprMembers(Tail(items))

PyStr(val) == <<"{">> \o PyReprMembers(val.items) \o <<"}">>

\* dict.get(key, default): the member of that key (the last one written), or
\* the default.
DictGet(val, key, default) ==
    IF HasKey(val, key)
    THEN LET i == CHOOSE j \in 1..Len(val.items) :
                      /\ val.items[j].key = key
                      /\ \A k \in (j + 1)..Len(val.items) : val.items[k].key # key
         IN  Member(<<>>, val.items[i].vk, val.items[i].v)
    ELSE default

ChatMessage(vk, v) ==
    JObj(<<Member(<<"type">>, "str", <<"chat">>), Member(<<"text">>, vk, v)>>)

\* NormalizeBroadcast without the except clause of line 109.
NormalizeBroadcast_NoRecover(message_data) ==
    LET parsed == json_loads(message_data)
        missing == PyNotIn("type", parsed.val)
    IN  IF ~parsed.ok THEN [err |-> "JSONDecodeError", payload |-> JNone]
        ELSE IF missing = "TypeError"
             THEN [err |-> "TypeError", payload |-> parsed.val]
        ELSE IF missing = "false" THEN [err |-> "none", payload |-> parsed.val]
        ELSE IF parsed.val.kind # "obj"
             THEN [err |-> "AttributeError", payload |-> parsed.val]
        ELSE LET t == DictGet(parsed.val, <<"text">>,
                              Member(<<>>, "str", PyStr(parsed.val)))
             IN  [err |-> "none", payload |-> ChatMessage(t.vk, t.v)]

\* The payload broadcast() builds from message_data (a str in every call the
\* program makes): [err, payload], err being "none" or the exception raised.
NormalizeBroadcast(message_data) ==
    LET parsed == json_loads(message_data)
        payload == IF parsed.ok THEN parsed.val
                   ELSE ChatMessage("str", Render(message_data))
        missing == PyNotIn("type", payload)
    IN  IF missing = "TypeError" THEN [err |-> "TypeError", payload |-> payload]
        ELSE IF missing = "false" THEN [err |-> "none", payload |-> payload]
        ELSE IF payload.kind # "obj"
             THEN [err |-> "AttributeError", payload |-> payload]
        ELSE LET t == DictGet(payload, <<"text">>,
                              Member(<<>>, "str", PyStr(payload)))
             IN  [err |-> "none", payload |-> ChatMessage(t.vk, t.v)]

\* The same lines of send_oneshot_message().
NormalizeOneshot(message_data) ==
    LET parsed == json_loads(message_data)
        payload == IF parsed.ok THEN parsed.val
                   ELSE ChatMessage("str", Render(message_data))
        missing == PyNotIn("type", payload)
    IN  IF missing = "TypeError" THEN [err |-> "TypeError", payload |-> payload]
        ELSE IF missing = "false" THEN [err |-> "none", payload |-> payload]
        ELSE IF payload.kind # "obj"
             THEN [err |-> "AttributeError", payload |-> payload]
        ELSE LET t == DictGet(payload, <<"text">>,
                              Member(<<>>, "str", PyStr(payload)))
             IN  [err |-> "none", payload |-> ChatMessage(t.vk, t.v)]

\* ProcessContent with the sentinel recognised only as the whole answer.
ProcessContent_SentinelExact(response) ==
    LET stripped == Strip(response)
        content == IF stripped # <<>> /\ Head(stripped) = Fence
                   THEN Strip(RemoveFence(RemoveFenceJson(stripped)))
                   ELSE stripped
    IN  IF content = <<Word("NO_NEWS")>> THEN [none |-> TRUE, text |-> <<>>]
        ELSE [none |-> FALSE, text |-> content]

\* process_with_gemini() after the model has answered: [none, text]; none is
\* TRUE where the function returns None.
ProcessContent(response) ==
    LET stripped == Strip(response)
        content == IF stripped # <<>> /\ Head(stripped) = Fence
                   THEN Strip(RemoveFence(RemoveFenceJson(stripped)))
                   ELSE stripped
    IN  IF HasSentinel(content) THEN [none |-> TRUE, text |-> <<>>]
        ELSE [none |-> FALSE, text |-> content]

\* Truth value of what process_with_gemini returned ("if json_res:").
Truthy(res) == ~res.none /\ res.text # <<>>

---------------------------------------------------------------------------
\* The answers of the Summarization service the model draws from

T(a) == Str(<<a>>)
RespChat == <<LBrace, T("type"), Colon, T("chat"), Comma, T("text"), Colon, T("hi"), RBrace>>
RespFenced == <<Fence, Word("json"), Space>> \o RespChat \o <<Space, Fence>>
RespOtherType == <<LBrace, T("type"), Colon, T("alert"), Comma, T("text"), Colon, T("hi"), RBrace>>
RespTypeOnly == <<LBrace, T("type"), Colon, T("chat"), RBrace>>
RespNoType == <<LBrace, T("text"), Colon, T("hi"), RBrace>>
RespNoTypeNoText == <<LBrace, T("foo"), Colon, T("hi"), RBrace>>
RespEmptyText == <<LBrace, T("text"), Colon, Str(<<>>), RBrace>>
RespNumText == <<LBrace, T("text"), Colon, Num("1"), RBrace>>
RespListType == <<LBrack, T("type"), RBrack>>
RespList == <<LBrack, T("hi"), RBrack>>
RespStrType == <<Str(<<"my", "type">>)>>
RespStr == <<T("hi")>>
RespNum == <<Num("1")>>
RespNull == <<Null>>
RespPlain == <<Space, Word("hi"), Space, Word("there")>>
RespQuoted == <<Word("say"), Space, T("hi")>>
RespSentinel == <<Word("NO_NEWS")>>
RespSentinelInside == <<LBrace, T("type"), Colon, T("chat"), Comma, T("text"), Colon, Str(<<"NO_NEWS", "today">>), RBrace>>
RespEmptyFence == <<Fence, Word("json"), Space, Fence>>

Responses ==
    { RespChat, RespFenced, RespOtherType, RespTypeOnly, RespNoType,
      RespNoTypeNoText, RespEmptyText, RespNumText, RespListType, RespList,
      RespStrType, RespStr, RespNum, RespNull, RespPlain, RespQuoted,
      RespSentinel, RespSentinelInside, RespEmptyFence }

\* What one call of the Summarization service does: it answers, or it raises a
\* quota-exhaustion error, or it raises another error.
LLMErrors == {"quota", "other"}

\* What one call of the News Search service gives fetch_news_tavily():
\*   "raises"    tavily.invoke raises
\*   "empty"     an empty list
\*   "results"   a list of {url, content} results
\*   "malformed" a non-empty value whose items have no 'url'
SearchOutcomes == {"raises", "empty", "results", "malformed"}

---------------------------------------------------------------------------
\* State

VARIABLES
    \* --- src/mewnews.py ---
    connected_clients,  \* the set of handles (line 47)
    conn,               \* conn[c]: the transport of handle c: "none", "open", "closed"
    hpc,                \* hpc[c]: position of connection_handler(c):
                        \*   "idle" (not accepted yet), "greeting" (awaiting the
                        \*   greeting send), "waiting" (awaiting wait_closed), "done"
    herr,               \* herr[c]: the exception that left connection_handler(c)
    npc,                \* position of news_loop
    message_data,       \* the argument of the broadcast() call in progress
    json_str,           \* the text broadcast() sends
    todo,               \* handles of the snapshot not yet visited by the send loop
    cur,                \* the handle of the send in progress (0: none)
    bc_entry,           \* connected_clients when the last broadcast() was entered
    bc_snapshot,        \* connected_clients.copy() of the last broadcast()
    bc_attempts,        \* bc_attempts[c]: send attempts to c in the last broadcast()
    bc_sent,            \* handles the last broadcast() sent to with success
    bc_failed,          \* handles whose send raised in the last broadcast()
    bc_result,          \* "none", "running", "noop", "done", "raised"
    crash,              \* the exception that left news_loop ("none": still running)
    last_sent,          \* the last text written to a socket (<<>>: none yet)
    searched,           \* a News Search call has been made
    first_cycle,        \* news_loop is in its first cycle
    raw,                \* what fetch_news_tavily() returned in this cycle
    llm_attempts,       \* calls of the Summarization service in this cycle
    llm_outcome,        \* how the last summarization of this cycle ended
    llm_response,       \* response.content of the last summarization of this
                        \* cycle (<<>>: none)
    sends_in_cycle,     \* sends attempted in this cycle
    \* --- src/mewnews-client.py ---
    cpc,                \* position of main()
    c_message,          \* the argument of the send_oneshot_message() call in progress
    c_json_str,         \* the text send_oneshot_message() sends
    c_conn,             \* the connection of the call: "none", "open", "closed"
    c_connects,         \* connections the call in progress (or the last call) opened
    c_sends,            \* sends the call in progress (or the last call) attempted
    c_delivered,        \* sends of that call that succeeded
    c_result,           \* how the last call ended: "none", "running", "sent",
                        \*   "refused", "error" (an exception caught and
                        \*   reported), "escaped" (an exception left the call)
    c_startup,          \* the call is the startup greeting
    c_pending,          \* the exception raised inside the "async with" block
                        \* and not yet handled ("none": none)
    c_crash,            \* the exception that left main() ("none": still running)
    c_raw,              \* what fetch_news_tavily() returned in this cycle
    c_last_sent,        \* the last text written to the socket (<<>>: none yet)
    c_calls_in_cycle,   \* send_oneshot_message calls in this cycle
    c_llm_attempts,     \* calls of the Summarization service in this cycle
    c_llm_outcome,      \* how the summarization of this cycle ended
    c_llm_response,     \* response.content of the summarization of this cycle
    \* --- the environment ---
    responses,          \* the answers the Summarization service can give in
                        \* this run (fixed at the start)
    GOOGLE_API_KEY      \* os.getenv("GOOGLE_API_KEY"): "key" or "None"

server_vars ==
    <<connected_clients, conn, hpc, herr, npc, message_data, json_str, todo, cur,
      bc_entry, bc_snapshot, bc_attempts, bc_sent, bc_failed, bc_result, crash,
      last_sent, searched, first_cycle, raw, llm_attempts, llm_outcome,
      llm_response, sends_in_cycle>>

client_vars ==
    <<cpc, c_message, c_json_str, c_conn, c_connects, c_sends, c_delivered,
      c_result, c_startup, c_pending, c_crash, c_raw, c_last_sent,
      c_calls_in_cycle,
      c_llm_attempts, c_llm_outcome, c_llm_response>>

env_vars == <<responses, GOOGLE_API_KEY>>

vars == <<server_vars, client_vars, env_vars>>

\* The greeting connection_handler() sends (line 123) and the one main() of the
\* client passes to send_oneshot_message() (line 158).
ServerGreeting == json_dumps(ChatMessage("str", <<"connected">>))
ClientGreeting == <<Word("agent"), Space, Word("ready")>>

ServerInit ==
    /\ connected_clients = {}
    /\ conn = [c \in Handles |-> "none"]
    /\ hpc = [c \in Handles |-> "idle"]
    /\ herr = [c \in Handles |-> "none"]
    /\ npc = "gate"
    /\ message_data = <<>>
    /\ json_str = <<>>
    /\ todo = {}
    /\ cur = 0
    /\ bc_entry = {}
    /\ bc_snapshot = {}
    /\ bc_attempts = [c \in Handles |-> 0]
    /\ bc_sent = {}
    /\ bc_failed = {}
    /\ bc_result = "none"
    /\ crash = "none"
    /\ last_sent = <<>>
    /\ searched = FALSE
    /\ first_cycle = TRUE
    /\ raw = "none"
    /\ llm_attempts = 0
    /\ llm_outcome = "none"
    /\ llm_response = <<>>
    /\ sends_in_cycle = 0

ClientInit ==
    /\ cpc = "start"
    /\ c_message = <<>>
    /\ c_json_str = <<>>
    /\ c_conn = "none"
    /\ c_connects = 0
    /\ c_sends = 0
    /\ c_delivered = 0
    /\ c_result = "none"
    /\ c_startup = FALSE
    /\ c_pending = "none"
    /\ c_crash = "none"
    /\ c_raw = "none"
    /\ c_last_sent = <<>>
    /\ c_calls_in_cycle = 0
    /\ c_llm_attempts = 0
    /\ c_llm_outcome = "none"
    /\ c_llm_response = <<>>

Init ==
    /\ ServerInit
    /\ ClientInit
    /\ responses = Responses
    /\ GOOGLE_API_KEY = "key"

\* A run in which the Summarization service gives one of three answers: a
\* JSON object with a type, a JSON number (broadcast() raises on it) and the
\* sentinel.
LifecycleResponses == {RespTypeOnly, RespNum, RespSentinel}

LifecycleInit ==
    /\ ServerInit
    /\ ClientInit
    /\ responses = LifecycleResponses
    /\ GOOGLE_API_KEY = "key"

---------------------------------------------------------------------------
\* src/mewnews.py: the broadcast server

\* news_loop is suspended in an await: the event loop runs the other tasks.
Suspended == npc \in {"gate_sleep", "gemini_wait", "send_wait", "sleep"}

\* NewsGate without the test of the client set.
NewsGate_NoGate ==
    /\ npc = "gate"
    /\ npc' = "fetch"
    /\ UNCHANGED <<connected_clients, conn, hpc, herr, message_data, json_str,
                   todo, cur, bc_entry, bc_snapshot, bc_attempts, bc_sent,
                   bc_failed, bc_result, crash, last_sent, searched, first_cycle,
                   raw, llm_attempts, llm_outcome, llm_response, sends_in_cycle>>
    /\ UNCHANGED <<client_vars, env_vars>>

\* NewsGate with the test inverted.
NewsGate_Inverted ==
    /\ npc = "gate"
    /\ npc' = IF Cardinality(connected_clients) = 0 THEN "fetch" ELSE "gate_sleep"
    /\ UNCHANGED <<connected_clients, conn, hpc, herr, message_data, json_str,
                   todo, cur, bc_entry, bc_snapshot, bc_attempts, bc_sent,
                   bc_failed, bc_result, crash, last_sent, searched, first_cycle,
                   raw, llm_attempts, llm_outcome, llm_response, sends_in_cycle>>
    /\ UNCHANGED <<client_vars, env_vars>>

\* news_loop, line 130: the gate of the first cycle.
NewsGate ==
    /\ npc = "gate"
    /\ npc' = IF Cardinality(connected_clients) = 0 THEN "gate_sleep" ELSE "fetch"
    /\ UNCHANGED <<connected_clients, conn, hpc, herr, message_data, json_str,
                   todo, cur, bc_entry, bc_snapshot, bc_attempts, bc_sent,
                   bc_failed, bc_result, crash, last_sent, searched, first_cycle,
                   raw, llm_attempts, llm_outcome, llm_response, sends_in_cycle>>
    /\ UNCHANGED <<client_vars, env_vars>>

\* asyncio.sleep(1) of line 130 returns.
NewsGateWake ==
    /\ npc = "gate_sleep"
    /\ npc' = "gate"
    /\ UNCHANGED <<connected_clients, conn, hpc, herr, message_data, json_str,
                   todo, cur, bc_entry, bc_snapshot, bc_attempts, bc_sent,
                   bc_failed, bc_result, crash, last_sent, searched, first_cycle,
                   raw, llm_attempts, llm_outcome, llm_response, sends_in_cycle>>
    /\ UNCHANGED <<client_vars, env_vars>>

\* What fetch_news_tavily() returns for an outcome of the search call: None
\* when the call raises (lines 61-65), its result otherwise.
fetch_news_tavily(outcome) == IF outcome = "raises" THEN "None" ELSE outcome

\* RawTruthy with only None taken as "no results".
RawTruthy_OnlyNone(r) == r # "None"

\* "if raw:" (line 134): None and the empty list are falsy.
RawTruthy(r) == r \in {"results", "malformed"}

\* news_loop, lines 133-134: the search call, made without suspension
\* (tavily.invoke is a blocking call).
FetchNews ==
    /\ npc = "fetch"
    /\ \E outcome \in SearchOutcomes :
         LET r == fetch_news_tavily(outcome)
         IN  /\ raw' = r
             /\ npc' = IF RawTruthy(r) THEN "summarize" ELSE "sleep"
    /\ searched' = TRUE
    /\ UNCHANGED <<connected_clients, conn, hpc, herr, message_data, json_str,
                   todo, cur, bc_entry, bc_snapshot, bc_attempts, bc_sent,
                   bc_failed, bc_result, crash, last_sent, first_cycle,
                   llm_attempts, llm_outcome, llm_response, sends_in_cycle>>
    /\ UNCHANGED <<client_vars, env_vars>>

\* ChatGoogleGenerativeAI(..., google_api_key=GOOGLE_API_KEY), line 69 (lines
\* 81-85 of the client), outside the try. Neither file tests the key: with
\* no key the library either raises here or builds a client whose calls
\* are all refused.
LLMConstruct(key) == IF key = "None" THEN {"raises", "built"} ELSE {"built"}

\* process_with_gemini(), lines 67-96: the context is built outside the try
\* (item['url'] raises for an item without 'url'), then the one call of the
\* Summarization service is awaited, with the one key GOOGLE_API_KEY.
Summarize ==
    /\ npc = "summarize"
    /\ \E llm \in LLMConstruct(GOOGLE_API_KEY) :
         IF llm = "raises"
         THEN /\ crash' = "CredentialsError"
              /\ npc' = "crashed"
              /\ UNCHANGED llm_attempts
         ELSE IF raw = "malformed"
         THEN /\ crash' = "KeyError"
              /\ npc' = "crashed"
              /\ UNCHANGED llm_attempts
         ELSE /\ llm_attempts' = llm_attempts + 1
              /\ npc' = "gemini_wait"
              /\ UNCHANGED crash
    /\ UNCHANGED <<connected_clients, conn, hpc, herr, message_data, json_str,
                   todo, cur, bc_entry, bc_snapshot, bc_attempts, bc_sent,
                   bc_failed, bc_result, last_sent, searched, first_cycle,
                   raw, llm_outcome, llm_response, sends_in_cycle>>
    /\ UNCHANGED <<client_vars, env_vars>>

\* GeminiReturn with one more attempt after an error that is not a quota error.
GeminiReturn_RetryOther ==
    /\ npc = "gemini_wait"
    /\ \/ \E e \in LLMErrors :
            /\ llm_outcome' = e
            /\ npc' = IF e = "other" /\ llm_attempts < 2
                      THEN "summarize" ELSE "sleep"
            /\ UNCHANGED <<message_data, llm_response>>
       \/ \E r \in responses :
            LET res == ProcessContent(r)
            IN  /\ GOOGLE_API_KEY = "key"
                /\ llm_response' = r
                /\ IF Truthy(res)
                   THEN /\ llm_outcome' = "content"
                        /\ message_data' = res.text
                        /\ npc' = "broadcast"
                   ELSE /\ llm_outcome' = IF res.none THEN "no_news" ELSE "empty"
                        /\ npc' = "sleep"
                        /\ UNCHANGED message_data
    /\ UNCHANGED <<connected_clients, conn, hpc, herr, json_str,
                   todo, cur, bc_entry, bc_snapshot, bc_attempts, bc_sent,
                   bc_failed, bc_result, crash, last_sent, searched, first_cycle,
                   raw, llm_attempts, sends_in_cycle>>
    /\ UNCHANGED <<client_vars, env_vars>>

\* process_with_gemini(), lines 96-103, and news_loop, lines 135-137: the
\* call returns or raises; any exception gives None, and nothing is retried.
GeminiReturn ==
    /\ npc = "gemini_wait"
    /\ \/ \E e \in LLMErrors :
            /\ llm_outcome' = e
            /\ npc' = "sleep"
            /\ UNCHANGED <<message_data, llm_response>>
       \/ \E r \in responses :
            LET res == ProcessContent(r)
            IN  /\ GOOGLE_API_KEY = "key"
                /\ llm_response' = r
                /\ IF Truthy(res)
                   THEN /\ llm_outcome' = "content"
                        /\ message_data' = res.text
                        /\ npc' = "broadcast"
                   ELSE /\ llm_outcome' = IF res.none THEN "no_news" ELSE "empty"
                        /\ npc' = "sleep"
                        /\ UNCHANGED message_data
    /\ UNCHANGED <<connected_clients, conn, hpc, herr, json_str,
                   todo, cur, bc_entry, bc_snapshot, bc_attempts, bc_sent,
                   bc_failed, bc_result, crash, last_sent, searched, first_cycle,
                   raw, llm_attempts, sends_in_cycle>>
    /\ UNCHANGED <<client_vars, env_vars>>

\* broadcast_prepare with the normalization done before the test of line 106.
broadcast_prepare_NormalizeFirst(clients, message) ==
    LET n == NormalizeBroadcast(message)
    IN  IF n.err # "none"
        THEN [result |-> "raised", err |-> n.err, text |-> <<>>]
        ELSE IF clients = {} THEN [result |-> "noop", err |-> "none", text |-> <<>>]
        ELSE [result |-> "running", err |-> "none", text |-> json_dumps(n.payload)]

\* broadcast(), lines 105-113, for a client set and an argument: [result, err,
\* text]: "noop" (the return of line 106), "raised" (err left the function),
\* or "running" with the text to send.
broadcast_prepare(clients, message) ==
    IF clients = {} THEN [result |-> "noop", err |-> "none", text |-> <<>>]
    ELSE LET n == NormalizeBroadcast(message)
         IN  IF n.err # "none"
             THEN [result |-> "raised", err |-> n.err, text |-> <<>>]
             ELSE [result |-> "running", err |-> "none",
                   text |-> json_dumps(n.payload)]

\* broadcast(), lines 105-115: the empty-set return, the normalization, the
\* serialization and the snapshot of the set.
Broadcast ==
    /\ npc = "broadcast"
    /\ bc_entry' = connected_clients
    /\ bc_attempts' = [c \in Handles |-> 0]
    /\ bc_sent' = {}
    /\ bc_failed' = {}
    /\ \E p \in {broadcast_prepare(connected_clients, message_data)} :
           /\ bc_result' = p.result
           /\ crash' = p.err
           /\ json_str' = p.text
           /\ bc_snapshot' = IF p.result = "running" THEN connected_clients ELSE {}
           /\ todo' = IF p.result = "running" THEN connected_clients ELSE {}
           /\ npc' = IF p.result = "running" THEN "send"
                     ELSE IF p.result = "raised" THEN "crashed" ELSE "sleep"
    /\ UNCHANGED <<connected_clients, conn, hpc, herr, message_data, cur,
                   last_sent, searched, first_cycle, raw, llm_attempts,
                   llm_outcome, llm_response, sends_in_cycle>>
    /\ UNCHANGED <<client_vars, env_vars>>

\* BroadcastNext with a send loop that ends after its first send.
BroadcastNext_StopAfterFirst ==
    /\ npc = "send"
    /\ IF todo = {} \/ todo # bc_snapshot
       THEN /\ bc_result' = "done"
            /\ npc' = "sleep"
            /\ UNCHANGED <<todo, cur, bc_attempts, sends_in_cycle>>
       ELSE \E ws \in todo :
            /\ cur' = ws
            /\ todo' = todo \ {ws}
            /\ bc_attempts' = [bc_attempts EXCEPT ![ws] = @ + 1]
            /\ sends_in_cycle' = sends_in_cycle + 1
            /\ npc' = "send_wait"
            /\ UNCHANGED bc_result
    /\ UNCHANGED <<connected_clients, conn, hpc, herr, message_data, json_str,
                   bc_entry, bc_snapshot, bc_sent, bc_failed, crash, last_sent,
                   searched, first_cycle, raw, llm_attempts, llm_outcome, llm_response>>
    /\ UNCHANGED <<client_vars, env_vars>>

\* broadcast(), lines 115-116: the loop takes the next handle of the snapshot
\* and starts its send, or ends.
BroadcastNext ==
    /\ npc = "send"
    /\ IF todo = {}
       THEN /\ bc_result' = "done"
            /\ npc' = "sleep"
            /\ UNCHANGED <<todo, cur, bc_attempts, sends_in_cycle>>
       ELSE \E ws \in todo :
            /\ cur' = ws
            /\ todo' = todo \ {ws}
            /\ bc_attempts' = [bc_attempts EXCEPT ![ws] = @ + 1]
            /\ sends_in_cycle' = sends_in_cycle + 1
            /\ npc' = "send_wait"
            /\ UNCHANGED bc_result
    /\ UNCHANGED <<connected_clients, conn, hpc, herr, message_data, json_str,
                   bc_entry, bc_snapshot, bc_sent, bc_failed, crash, last_sent,
                   searched, first_cycle, raw, llm_attempts, llm_outcome, llm_response>>
    /\ UNCHANGED <<client_vars, env_vars>>

\* set.remove(ws): [raises, set]; a KeyError when ws is not in the set.
SetRemove(set, ws) ==
    IF ws \in set THEN [raises |-> FALSE, set |-> set \ {ws}]
    ELSE [raises |-> TRUE, set |-> set]

\* broadcast(), lines 116-117: the send returns, or raises (the connection is
\* closed) and the handle is removed in the except clause.
BroadcastSendDone ==
    /\ npc = "send_wait"
    /\ cur' = 0
    /\ IF conn[cur] = "open"
       THEN /\ last_sent' = json_str
            /\ bc_sent' = bc_sent \cup {cur}
            /\ npc' = "send"
            /\ UNCHANGED <<connected_clients, bc_failed, bc_result, crash>>
       ELSE LET rm == SetRemove(connected_clients, cur)
            IN  /\ bc_failed' = bc_failed \cup {cur}
                /\ connected_clients' = rm.set
                /\ IF rm.raises
                   THEN /\ crash' = "KeyError"
                        /\ bc_result' = "raised"
                        /\ npc' = "crashed"
                   ELSE /\ npc' = "send"
                        /\ UNCHANGED <<bc_result, crash>>
                /\ UNCHANGED <<last_sent, bc_sent>>
    /\ UNCHANGED <<conn, hpc, herr, message_data, json_str, todo, bc_entry,
                   bc_snapshot, bc_attempts, searched, first_cycle, raw,
                   llm_attempts, llm_outcome, llm_response, sends_in_cycle>>
    /\ UNCHANGED <<client_vars, env_vars>>

\* news_loop, line 138: asyncio.sleep(300) returns and the next cycle starts.
NewsSleepWake ==
    /\ npc = "sleep"
    /\ npc' = "fetch"
    /\ first_cycle' = FALSE
    /\ raw' = "none"
    /\ message_data' = <<>>
    /\ json_str' = <<>>
    /\ llm_attempts' = 0
    /\ llm_outcome' = "none"
    /\ llm_response' = <<>>
    /\ sends_in_cycle' = 0
    /\ UNCHANGED <<connected_clients, conn, hpc, herr, todo, cur, bc_entry,
                   bc_snapshot, bc_attempts, bc_sent, bc_failed, bc_result,
                   crash, last_sent, searched>>
    /\ UNCHANGED <<client_vars, env_vars>>

\* connection_handler(), lines 119-123: a connection is accepted; the handle
\* is added and the greeting send is awaited.
Connect(c) ==
    /\ Suspended
    /\ hpc[c] = "idle"
    /\ conn' = [conn EXCEPT ![c] = "open"]
    /\ connected_clients' = connected_clients \cup {c}
    /\ hpc' = [hpc EXCEPT ![c] = "greeting"]
    /\ UNCHANGED <<herr, npc, message_data, json_str, todo, cur, bc_entry,
                   bc_snapshot, bc_attempts, bc_sent, bc_failed, bc_result,
                   crash, last_sent, searched, first_cycle, raw, llm_attempts,
                   llm_outcome, llm_response, sends_in_cycle>>
    /\ UNCHANGED <<client_vars, env_vars>>

\* The remote side closes (or the transport fails): sends to the handle raise
\* from now on and wait_closed() returns.
PeerClose(c) ==
    /\ Suspended
    /\ conn[c] = "open"
    /\ conn' = [conn EXCEPT ![c] = "closed"]
    /\ UNCHANGED <<connected_clients, hpc, herr, npc, message_data, json_str,
                   todo, cur, bc_entry, bc_snapshot, bc_attempts, bc_sent,
                   bc_failed, bc_result, crash, last_sent, searched, first_cycle,
                   raw, llm_attempts, llm_outcome, llm_response, sends_in_cycle>>
    /\ UNCHANGED <<client_vars, env_vars>>

\* HandlerFinally without the removal of line 127.
HandlerFinally_NoRemove(c, entering) ==
    /\ connected_clients' = connected_clients
    /\ herr' = [herr EXCEPT ![c] = entering]
    /\ hpc' = [hpc EXCEPT ![c] = "done"]

\* connection_handler(), lines 125-127: the finally block; the exception that
\* leaves the handler is the KeyError of remove() when the handle is absent,
\* else the one that entered the block.
HandlerFinally(c, entering) ==
    LET rm == SetRemove(connected_clients, c)
    IN  /\ connected_clients' = rm.set
        /\ herr' = [herr EXCEPT ![c] = IF rm.raises THEN "KeyError" ELSE entering]
        /\ hpc' = [hpc EXCEPT ![c] = "done"]

\* connection_handler(), lines 123-127: the greeting send returns, or raises.
GreetingDone(c) ==
    /\ Suspended
    /\ hpc[c] = "greeting"
    /\ IF conn[c] = "open"
       THEN /\ last_sent' = ServerGreeting
            /\ hpc' = [hpc EXCEPT ![c] = "waiting"]
            /\ UNCHANGED <<connected_clients, herr>>
       ELSE /\ HandlerFinally(c, "ConnectionClosed")
            /\ UNCHANGED last_sent
    /\ UNCHANGED <<conn, npc, message_data, json_str, todo, cur, bc_entry,
                   bc_snapshot, bc_attempts, bc_sent, bc_failed, bc_result,
                   crash, searched, first_cycle, raw, llm_attempts,
                   llm_outcome, llm_response, sends_in_cycle>>
    /\ UNCHANGED <<client_vars, env_vars>>

\* connection_handler(), lines 124-127: wait_closed() returns.
WaitClosedReturn(c) ==
    /\ Suspended
    /\ hpc[c] = "waiting"
    /\ conn[c] = "closed"
    /\ HandlerFinally(c, "none")
    /\ UNCHANGED <<conn, npc, message_data, json_str, todo, cur, bc_entry,
                   bc_snapshot, bc_attempts, bc_sent, bc_failed, bc_result,
                   crash, last_sent, searched, first_cycle, raw, llm_attempts,
                   llm_outcome, llm_response, sends_in_cycle>>
    /\ UNCHANGED <<client_vars, env_vars>>

\* asyncio.run() (line 147) after an exception has left main(): the handlers
\* still pending are cancelled, and their finally blocks run.
CancelHandler(c) ==
    /\ npc = "crashed"
    /\ hpc[c] \in {"greeting", "waiting"}
    /\ HandlerFinally(c, "CancelledError")
    /\ conn' = [conn EXCEPT ![c] = "closed"]
    /\ UNCHANGED <<npc, message_data, json_str, todo, cur, bc_entry,
                   bc_snapshot, bc_attempts, bc_sent, bc_failed, bc_result,
                   crash, last_sent, searched, first_cycle, raw, llm_attempts,
                   llm_outcome, llm_response, sends_in_cycle>>
    /\ UNCHANGED <<client_vars, env_vars>>

ServerNext ==
    \/ NewsGate
    \/ NewsGateWake
    \/ FetchNews
    \/ Summarize
    \/ GeminiReturn
    \/ Broadcast
    \/ BroadcastNext
    \/ BroadcastSendDone
    \/ NewsSleepWake
    \/ \E c \in Handles : Connect(c)
    \/ \E c \in Handles : PeerClose(c)
    \/ \E c \in Handles : GreetingDone(c)
    \/ \E c \in Handles : WaitClosedReturn(c)
    \/ \E c \in Handles : CancelHandler(c)

Spec == Init /\ [][ServerNext]_vars

\* The event loop runs every task that is ready: code that is running reaches
\* its next await, and a handler whose await has completed is resumed the next
\* time the running task suspends.
HandlerStep(c) == GreetingDone(c) \/ WaitClosedReturn(c) \/ CancelHandler(c)

FairSpec ==
    /\ LifecycleInit
    /\ [][ServerNext]_vars
    /\ WF_vars(NewsGate)
    /\ WF_vars(FetchNews)
    /\ WF_vars(Summarize)
    /\ WF_vars(Broadcast)
    /\ WF_vars(BroadcastNext)
    /\ \A c \in Handles : SF_vars(HandlerStep(c))

---------------------------------------------------------------------------
\* src/mewnews-client.py: the one-shot client

\* The exceptions the model raises; all are subclasses of Exception.
Exceptions ==
    {"ConnectionRefusedError", "OSError", "ConnectionClosed", "TypeError",
     "AttributeError", "KeyError"}

\* How connect() can end: the connection is open, or connect() raises.
ConnectOutcomes == {"open", "ConnectionRefusedError", "OSError"}

\* OneshotExcept with the clause of line 146 alone.
OneshotExcept_RefusedOnly(exc) ==
    IF exc = "ConnectionRefusedError" THEN "refused" ELSE "escapes"

\* send_oneshot_message(), lines 146-149: the except clauses; the result the
\* call ends with, or "escapes" when no clause catches the exception.
OneshotExcept(exc) ==
    IF exc = "ConnectionRefusedError" THEN "refused"
    ELSE IF exc \in Exceptions THEN "error"
    ELSE "escapes"

\* Where main() goes on after a send_oneshot_message() call has returned:
\* into the loop after the startup greeting (line 161), to the sleep of
\* line 176 after the send of a cycle.
AfterCall == IF c_startup THEN "fetch" ELSE "sleep"

\* send_oneshot_message() ends with exception exc raised in its try block.
OneshotRaise(exc) ==
    LET r == OneshotExcept(exc)
    IN  IF r = "escapes"
        THEN /\ c_crash' = exc
             /\ c_result' = "escaped"
             /\ cpc' = "crashed"
             /\ UNCHANGED c_startup
        ELSE /\ c_result' = r
             /\ cpc' = AfterCall
             /\ c_startup' = FALSE
             /\ UNCHANGED c_crash

\* main(), line 158: the startup greeting.
ClientStart ==
    /\ cpc = "start"
    /\ c_message' = ClientGreeting
    /\ c_startup' = TRUE
    /\ cpc' = "oneshot"
    /\ UNCHANGED <<c_json_str, c_conn, c_connects, c_sends, c_delivered,
                   c_result, c_pending, c_crash, c_raw, c_last_sent,
                   c_calls_in_cycle, c_llm_attempts, c_llm_outcome, c_llm_response>>
    /\ UNCHANGED <<server_vars, env_vars>>

\* send_oneshot_message(), lines 127-142: normalization and serialization,
\* then connect() is awaited.
OneshotBegin ==
    /\ cpc = "oneshot"
    /\ c_conn' = "none"
    /\ c_sends' = 0
    /\ c_delivered' = 0
    /\ c_pending' = "none"
    /\ LET n == NormalizeOneshot(c_message)
       IN  IF n.err # "none"
           THEN /\ OneshotRaise(n.err)
                /\ c_connects' = 0
                /\ UNCHANGED c_json_str
           ELSE /\ c_json_str' = json_dumps(n.payload)
                /\ c_connects' = 1
                /\ c_result' = "running"
                /\ cpc' = "connecting"
                /\ UNCHANGED <<c_crash, c_startup>>
    /\ UNCHANGED <<c_message, c_raw, c_last_sent, c_calls_in_cycle,
                   c_llm_attempts, c_llm_outcome, c_llm_response>>
    /\ UNCHANGED <<server_vars, env_vars>>

\* send_oneshot_message(), lines 142-143: connect() returns and the send is
\* awaited, or connect() raises.
OneshotConnectDone ==
    /\ cpc = "connecting"
    /\ \E outcome \in ConnectOutcomes :
         IF outcome = "open"
         THEN /\ c_conn' = "open"
              /\ c_sends' = c_sends + 1
              /\ cpc' = "sending"
              /\ UNCHANGED <<c_result, c_crash, c_startup>>
         ELSE /\ OneshotRaise(outcome)
              /\ UNCHANGED <<c_conn, c_sends>>
    /\ UNCHANGED <<c_message, c_json_str, c_connects, c_delivered, c_pending,
                   c_raw, c_last_sent, c_calls_in_cycle, c_llm_attempts,
                   c_llm_outcome, c_llm_response>>
    /\ UNCHANGED <<server_vars, env_vars>>

\* send_oneshot_message(), lines 143-144: the send returns or raises; either
\* way the "async with" block is left and the connection's close is awaited.
OneshotSendDone ==
    /\ cpc = "sending"
    /\ \/ /\ c_delivered' = c_delivered + 1
          /\ c_last_sent' = c_json_str
          /\ UNCHANGED c_pending
       \/ /\ c_pending' = "ConnectionClosed"
          /\ UNCHANGED <<c_delivered, c_last_sent>>
    /\ cpc' = "closing"
    /\ UNCHANGED <<c_message, c_json_str, c_conn, c_connects, c_sends, c_result,
                   c_startup, c_crash, c_raw, c_calls_in_cycle, c_llm_attempts,
                   c_llm_outcome, c_llm_response>>
    /\ UNCHANGED <<server_vars, env_vars>>

\* AsyncWithExit without the close.
AsyncWithExit_Leak(state) == state

\* What leaving the "async with" block of line 142 does to the connection.
AsyncWithExit(state) == "closed"

\* send_oneshot_message(), lines 142-149: the connection is closed; the call
\* returns, through an except clause when the send raised.
OneshotCloseDone ==
    /\ cpc = "closing"
    /\ c_conn' = AsyncWithExit(c_conn)
    /\ c_pending' = "none"
    /\ IF c_pending = "none"
       THEN /\ c_result' = "sent"
            /\ cpc' = AfterCall
            /\ c_startup' = FALSE
            /\ UNCHANGED c_crash
       ELSE OneshotRaise(c_pending)
    /\ UNCHANGED <<c_message, c_json_str, c_connects, c_sends, c_delivered,
                   c_raw, c_last_sent, c_calls_in_cycle, c_llm_attempts,
                   c_llm_outcome, c_llm_response>>
    /\ UNCHANGED <<server_vars, env_vars>>

\* main(), lines 163-167: the query is built and the search call made.
ClientFetch ==
    /\ cpc = "fetch"
    /\ \E outcome \in SearchOutcomes :
         LET r == fetch_news_tavily(outcome)
         IN  /\ c_raw' = r
             /\ cpc' = IF RawTruthy(r) THEN "summarize" ELSE "sleep"
    /\ UNCHANGED <<c_message, c_json_str, c_conn, c_connects, c_sends,
                   c_delivered, c_result, c_startup, c_pending, c_crash,
                   c_last_sent, c_calls_in_cycle, c_llm_attempts, c_llm_outcome, c_llm_response>>
    /\ UNCHANGED <<server_vars, env_vars>>

\* process_with_gemini(), lines 77-112 of the client.
ClientSummarize ==
    /\ cpc = "summarize"
    /\ \E llm \in LLMConstruct(GOOGLE_API_KEY) :
         IF llm = "raises"
         THEN /\ c_crash' = "CredentialsError"
              /\ cpc' = "crashed"
              /\ UNCHANGED c_llm_attempts
         ELSE IF c_raw = "malformed"
         THEN /\ c_crash' = "KeyError"
              /\ cpc' = "crashed"
              /\ UNCHANGED c_llm_attempts
         ELSE /\ c_llm_attempts' = c_llm_attempts + 1
              /\ cpc' = "gemini_wait"
              /\ UNCHANGED c_crash
    /\ UNCHANGED <<c_message, c_json_str, c_conn, c_connects, c_sends,
                   c_delivered, c_result, c_startup, c_pending, c_raw,
                   c_last_sent, c_calls_in_cycle, c_llm_outcome, c_llm_response>>
    /\ UNCHANGED <<server_vars, env_vars>>

\* process_with_gemini(), lines 112-119, and main(), lines 168-173.
ClientGeminiReturn ==
    /\ cpc = "gemini_wait"
    /\ \/ \E e \in LLMErrors :
            /\ c_llm_outcome' = e
            /\ cpc' = "sleep"
            /\ UNCHANGED <<c_message, c_calls_in_cycle, c_llm_response>>
       \/ \E r \in responses :
            LET res == ProcessContent(r)
            IN  /\ GOOGLE_API_KEY = "key"
                /\ c_llm_response' = r
                /\ IF Truthy(res)
                   THEN /\ c_llm_outcome' = "content"
                        /\ c_message' = res.text
                        /\ c_calls_in_cycle' = c_calls_in_cycle + 1
                        /\ cpc' = "oneshot"
                   ELSE /\ c_llm_outcome' = IF res.none THEN "no_news" ELSE "empty"
                        /\ cpc' = "sleep"
                        /\ UNCHANGED <<c_message, c_calls_in_cycle>>
    /\ UNCHANGED <<c_json_str, c_conn, c_connects, c_sends, c_delivered,
                   c_result, c_startup, c_pending, c_crash, c_raw, c_last_sent,
                   c_llm_attempts>>
    /\ UNCHANGED <<server_vars, env_vars>>

\* main(), line 176: asyncio.sleep(90) returns and the next cycle starts.
ClientSleepWake ==
    /\ cpc = "sleep"
    /\ cpc' = "fetch"
    /\ c_raw' = "none"
    /\ c_message' = <<>>
    /\ c_json_str' = <<>>
    /\ c_calls_in_cycle' = 0
    /\ c_llm_attempts' = 0
    /\ c_llm_outcome' = "none"
    /\ c_llm_response' = <<>>
    /\ UNCHANGED <<c_conn, c_connects, c_sends, c_delivered, c_result,
                   c_startup, c_pending, c_crash, c_last_sent>>
    /\ UNCHANGED <<server_vars, env_vars>>

ClientNext ==
    \/ ClientStart
    \/ OneshotBegin
    \/ OneshotConnectDone
    \/ OneshotSendDone
    \/ OneshotCloseDone
    \/ ClientFetch
    \/ ClientSummarize
    \/ ClientGeminiReturn
    \/ ClientSleepWake

\* The client is started with or without GOOGLE_API_KEY in its environment
\* (line 15: os.getenv gives None for a variable that is not set).
ClientRunInit ==
    /\ ServerInit
    /\ ClientInit
    /\ responses = Responses
    /\ GOOGLE_API_KEY \in {"key", "None"}

ClientSpec == ClientRunInit /\ [][ClientNext]_vars

---------------------------------------------------------------------------
\* Either program: a run is a run of the broadcast server (the client is
\* never started) or a run of the one-shot client (the server of this
\* repository has done nothing: the client talks to an external server).
EitherNext ==
    \/ cpc = "start" /\ ServerNext
    \/ ServerInit /\ ClientNext

EitherSpec == Init /\ [][EitherNext]_vars

---------------------------------------------------------------------------
\* Claims

\* C1: broadcast eviction.  Whenever broadcast() ran its send loop and the send
\* to some handle failed, then once broadcast() has finished no exception has
\* left it, no handle whose send failed is in the set, and every handle whose
\* send succeeded and whose connection is still open is in the set.
C1_BroadcastEviction ==
    (bc_failed # {} /\ bc_result \in {"done", "raised"}) =>
        /\ bc_result = "done"
        /\ bc_failed \cap connected_clients = {}
        /\ \A c \in bc_sent : conn[c] = "open" => c \in connected_clients

\* C2: in one broadcast() call every handle of the snapshot gets exactly one
\* send attempt, whatever the other sends do and whatever connects or closes
\* meanwhile.
C2_OneAttemptEach ==
    bc_result \in {"done", "raised"} =>
        \A c \in bc_snapshot : bc_attempts[c] = 1

\* C3: connection lifecycle Connecting -> Open -> Closed.  A handle is in the
\* set while its handler runs and its connection is open; it is not in the set
\* before its handler starts nor after its handler has finished; a finished
\* handler stays finished (the handle never re-enters the set); and every
\* closed connection's handler eventually finishes, its handle out of the set.
C3_Lifecycle ==
    /\ [](\A c \in Handles :
            /\ hpc[c] \in {"idle", "done"} => c \notin connected_clients
            /\ (hpc[c] \in {"greeting", "waiting"} /\ conn[c] = "open")
                   => c \in connected_clients)
    /\ [][\A c \in Handles : hpc[c] = "done" => hpc'[c] = "done"]_vars
    /\ \A c \in Handles :
         (conn[c] = "closed") ~> (hpc[c] = "done" /\ c \notin connected_clients)

\* A peer closed after a completed broadcast to it, and its handler finished.
C3_Witness ==
    \E c \in Handles :
        /\ hpc[c] = "done"
        /\ herr[c] = "none"
        /\ c \in bc_sent
        /\ c \notin connected_clients

\* C4 as stated: whenever news_loop issues the search call or the
\* summarization call, the client set is non-empty, in every cycle.
C4_NoCallWhileNobodyListens ==
    npc \in {"fetch", "summarize"} => connected_clients # {}

\* C4 amended: the search call and the summarization call of the first cycle
\* are issued with a non-empty client set.
C4_FirstCycleCallsGated ==
    (first_cycle /\ npc \in {"fetch", "summarize"}) => connected_clients # {}

\* The first cycle's summarization call is issued; one client has already left
\* and another is listening.
C4_Witness ==
    /\ first_cycle
    /\ npc = "summarize"
    /\ \E c \in Handles : hpc[c] = "done"
    /\ connected_clients # {}

\* C5: while no connection handler has ever started, news_loop is at its gate
\* (polling or sleeping) and has made no search, summarization or send call.
C5_FirstCycleGate ==
    (\A c \in Handles : hpc[c] = "idle") =>
        /\ npc \in {"gate", "gate_sleep"}
        /\ ~searched
        /\ llm_attempts = 0
        /\ sends_in_cycle = 0
        /\ bc_result = "none"
        /\ last_sent = <<>>

\* Nobody has connected and news_loop has polled the set and gone to sleep.
C5_Witness ==
    /\ \A c \in Handles : hpc[c] = "idle"
    /\ npc = "gate_sleep"

\* A text written to a socket is a JSON object with a "type" member.
IsTypedObject(text) ==
    LET p == json_loads(text)
    IN  p.ok /\ p.val.kind = "obj" /\ HasKey(p.val, <<"type">>)

\* C6: wire invariant.  Every text written to a websocket, by a broadcast, by
\* the greeting of a connection handler or by the one-shot send, is a JSON
\* object with a "type" field.
C6_WireInvariant ==
    /\ last_sent # <<>> => IsTypedObject(last_sent)
    /\ c_last_sent # <<>> => IsTypedObject(c_last_sent)

\* The call of send_oneshot_message() (or the startup) is in progress.
CallActive == cpc \in {"oneshot", "connecting", "sending", "closing"}

\* C7: a broadcast() entered with an empty client set attempts no send, leaves
\* the set unchanged, writes nothing and raises nothing, whatever its argument.
C7_EmptySetNoop ==
    [][(npc = "broadcast" /\ connected_clients = {}) =>
          /\ npc' = "sleep"
          /\ bc_result' = "noop"
          /\ crash' = "none"
          /\ connected_clients' = {}
          /\ last_sent' = last_sent
          /\ sends_in_cycle' = sends_in_cycle
          /\ \A c \in Handles : bc_attempts'[c] = 0]_vars

\* broadcast() has returned from a call with an empty set and an argument its
\* normalization raises on.
C7_Witness ==
    /\ npc = "sleep"
    /\ bc_result = "noop"
    /\ bc_entry = {}
    /\ NormalizeBroadcast(message_data).err # "none"

\* C8: one-shot delivery.  A call connects at most once; it sends only on the
\* connection it opened, at most once, and exactly once when the connection
\* was opened; and once the call has returned its connection is not open.
C8_OneShotDelivery ==
    /\ c_connects <= 1
    /\ c_sends <= 1
    /\ c_delivered <= c_sends
    /\ c_sends = 1 => (c_connects = 1 /\ c_conn \in {"open", "closed"})
    /\ c_conn \in {"open", "closed"} => c_sends = 1
    /\ cpc = "sending" => c_conn = "open"
    /\ ~CallActive => c_conn # "open"

\* A call of a cycle has returned after its send raised: the connection it
\* opened is closed.
C8_Witness ==
    /\ cpc = "sleep"
    /\ c_result = "error"
    /\ c_conn = "closed"
    /\ c_sends = 1
    /\ c_delivered = 0

\* C9: one-shot delivery failure.  The step in which a call ends in failure
\* (connect or send raised, or the normalization did) lets no exception out of
\* send_oneshot_message, has delivered nothing, has made at most one connection
\* attempt, and leaves main() at the sleep of the cycle (in the loop, after the
\* startup greeting); the call is the only one of its cycle.
C9_DeliveryFailure ==
    /\ [][(CallActive /\ c_result' \notin {"running", "sent"}) =>
            /\ c_result' \in {"refused", "error"}
            /\ c_crash' = "none"
            /\ c_delivered' = 0
            /\ c_connects' <= 1
            /\ cpc' = IF c_startup THEN "fetch" ELSE "sleep"]_vars
    /\ [](c_calls_in_cycle <= 1)

\* The call of a cycle has ended with the connection refused, and main() is at
\* its sleep.
C9_Witness ==
    /\ cpc = "sleep"
    /\ c_result = "refused"
    /\ c_calls_in_cycle = 1
    /\ c_connects = 1
    /\ c_delivered = 0

\* C10: summarization retry/rotation.  A cycle whose summarization ended on a
\* quota-exhaustion signal has made 3 attempts (the key rotated between them).
C10_RetryRotation ==
    /\ llm_outcome = "quota" => llm_attempts = 3
    /\ c_llm_outcome = "quota" => c_llm_attempts = 3

\* C11: when the answer of the Summarization service contains NO_NEWS
\* anywhere, process_with_gemini gives no result and nothing is transmitted
\* in that cycle: the server attempts no send to any client, the client makes
\* no send_oneshot_message call (so opens no connection), and the loop is at
\* its sleep.
C11_SentinelSilence ==
    /\ (llm_response # <<>> /\ HasSentinel(llm_response)) =>
          /\ llm_outcome = "no_news"
          /\ npc = "sleep"
          /\ message_data = <<>>
          /\ sends_in_cycle = 0
    /\ (c_llm_response # <<>> /\ HasSentinel(c_llm_response)) =>
          /\ c_llm_outcome = "no_news"
          /\ cpc = "sleep"
          /\ c_calls_in_cycle = 0

\* The sentinel inside a JSON answer, with a client connected.
C11_Witness ==
    /\ llm_response = RespSentinelInside
    /\ connected_clients # {}
    /\ npc = "sleep"

\* C12: when no LLM API key is present the process ends at startup, before
\* the news loop: main() never leaves its start, and no News Search call, no
\* Summarization call, no connection and no send is made in that run.
C12_MissingKeyFatal ==
    GOOGLE_API_KEY = "None" =>
        /\ cpc = "start"
        /\ c_raw = "none"
        /\ c_llm_attempts = 0
        /\ c_connects = 0
        /\ c_sends = 0

\* C13: when the News Search call raises or returns an empty result,
\* fetch_news_tavily gives "no results" (None or the empty list), the
\* Summarization service is not called and nothing is transmitted in that
\* cycle, no exception leaves the loop, and the loop is at its sleep, from
\* which its next step is the fetch of the next cycle.
C13_SearchFailureNotFatal ==
    /\ [](raw \in {"None", "empty"} =>
            /\ npc = "sleep"
            /\ crash = "none"
            /\ llm_attempts = 0
            /\ llm_outcome = "none"
            /\ sends_in_cycle = 0
            /\ ENABLED NewsSleepWake)
    /\ [](c_raw \in {"None", "empty"} =>
            /\ cpc = "sleep"
            /\ c_crash = "none"
            /\ c_llm_attempts = 0
            /\ c_calls_in_cycle = 0
            /\ ENABLED ClientSleepWake)
    /\ [][(raw \in {"None", "empty"} /\ npc' # npc) => npc' = "fetch"]_vars
    /\ [][(c_raw \in {"None", "empty"} /\ cpc' # cpc) => cpc' = "fetch"]_vars

\* The search call has raised in a cycle of the server with a client
\* connected.
C13_Witness ==
    /\ raw = "None"
    /\ npc = "sleep"
    /\ connected_clients # {}

\* The text parses as a JSON object that has no "type" member.
LacksType(text) ==
    LET p == json_loads(text)
    IN  p.ok /\ p.val.kind = "obj" /\ ~HasKey(p.val, <<"type">>)

\* The wire text is the object {"type": "chat", "text": t}, t being the "text"
\* member of the object parsed from text when it has one, the string form of
\* that object otherwise, and t is not the empty string.
IsChatOf(wire, text) ==
    LET p == json_loads(text).val
        w == json_loads(wire)
        none == Member(<<>>, "null", <<"null">>)
        t == DictGet(w.val, <<"text">>, none)
    IN  /\ w.ok
        /\ w.val.kind = "obj"
        /\ DictGet(w.val, <<"type">>, none) = Member(<<>>, "str", <<"chat">>)
        /\ HasKey(w.val, <<"text">>)
        /\ t = DictGet(p, <<"text">>, Member(<<>>, "str", PyStr(p)))
        /\ ~(t.vk = "str" /\ t.v = <<>>)

\* C14: for an answer that parses as an object without a "type" field, the
\* message put on the wire has type "chat" and a non-empty text, taken from
\* the object's "text" field when present and from the object's string form
\* otherwise, in the broadcast and in the one-shot send alike.
C14_ChatWrapping ==
    /\ (npc \in {"send", "send_wait"} /\ LacksType(message_data)) =>
          IsChatOf(json_str, message_data)
    /\ (cpc \in {"connecting", "sending"} /\ LacksType(c_message)) =>
          IsChatOf(c_json_str, c_message)

\* C15: for a Summarizer output that does not parse as JSON, the message
\* delivered is exactly {"type": "chat", "text": <the output>}: the text on the
\* wire parses back to that object, the parse failure raises nothing out of
\* broadcast() or send_oneshot_message(), and the delivery is attempted (a send
\* to a client of the snapshot; the connection of the one-shot send).
C15_ParseFailureWrapped ==
    /\ ( /\ llm_outcome = "content"
         /\ npc \in {"send", "send_wait", "sleep", "crashed"}
         /\ bc_result # "noop"
         /\ ~json_loads(message_data).ok ) =>
          /\ json_loads(json_str) =
                [ok |-> TRUE, val |-> ChatMessage("str", Render(message_data))]
          /\ crash \notin {"TypeError", "AttributeError", "JSONDecodeError"}
          /\ bc_snapshot # {}
          /\ npc # "send" => sends_in_cycle >= 1
    /\ ( /\ cpc \in {"connecting", "sending", "closing"} \/
               (cpc = "sleep" /\ c_llm_outcome = "content")
         /\ ~json_loads(c_message).ok ) =>
          /\ json_loads(c_json_str) =
                [ok |-> TRUE, val |-> ChatMessage("str", Render(c_message))]
          /\ c_result # "escaped"
          /\ c_crash = "none"
          /\ c_connects = 1

\* A broadcast of an answer that is not JSON and holds a quoted word has
\* written its text to a client.
C15_Witness ==
    /\ llm_response = RespQuoted
    /\ npc = "sleep"
    /\ bc_sent # {}
    /\ last_sent = json_str

\* C16: when the Summarization call raises an error that is not a quota
\* error, that cycle has made exactly one Summarization attempt,
\* process_with_gemini has given no result, nothing is transmitted, no
\* exception leaves the loop, and the loop is at its sleep with the next cycle
\* ahead.
C16_NoRetryOnOtherError ==
    /\ llm_outcome = "other" =>
          /\ llm_attempts = 1
          /\ npc = "sleep"
          /\ message_data = <<>>
          /\ sends_in_cycle = 0
          /\ crash = "none"
          /\ ENABLED NewsSleepWake
    /\ c_llm_outcome = "other" =>
          /\ c_llm_attempts = 1
          /\ cpc = "sleep"
          /\ c_calls_in_cycle = 0
          /\ c_crash = "none"
          /\ ENABLED ClientSleepWake

\* The call has raised such an error in a cycle of the server with a client
\* connected.
C16_Witness ==
    /\ llm_outcome = "other"
    /\ connected_clients # {}
    /\ ~first_cycle

\* C17: in every interleaving of broadcast() with connection_handler(),
\* connected_clients.remove is never executed for a handle that is not in the
\* set: no KeyError leaves a connection handler and none leaves broadcast().
C17_NoAbsentRemove ==
    /\ \A c \in Handles : herr[c] # "KeyError"
    /\ ~(bc_result = "raised" /\ crash = "KeyError")

\* C18: the cycle loop never stops on its own, in either program: whatever
\* the search returns, whatever the Summarizer outputs, whatever a send does
\* and however clients come and go, no exception leaves news_loop or the loop
\* of the client's main().
C18_LoopNeverStops ==
    /\ crash = "none"
    /\ npc # "crashed"
    /\ c_crash = "none"
    /\ cpc # "crashed"

\* C19: cycles are sequential and do not overlap.  Within a cycle the steps
\* come in the order fetch, summarize, normalize, deliver, sleep; the fetch of
\* the next cycle starts only from the completed sleep (or from the gate, or
\* after the client's startup greeting, for the first cycle); the sleep is
\* entered from a delivery only when every handle of the snapshot has had its
\* send (the client: when the connection is closed); and one message at most
\* is in delivery: while the loop is fetching or summarizing nothing of an
\* earlier cycle is being delivered, and the text does not change during the
\* send loop.
C19_SequentialCycles ==
    /\ [][npc' = "fetch" => npc \in {"gate", "sleep", "fetch"}]_vars
    /\ [][(npc' = "sleep" /\ npc = "send") =>
             \A c \in bc_snapshot : bc_attempts[c] = 1]_vars
    /\ [][(npc \in {"send", "send_wait"} /\ npc' \in {"send", "send_wait"}) =>
             /\ json_str' = json_str
             /\ bc_snapshot' = bc_snapshot]_vars
    /\ [](npc \in {"fetch", "summarize", "gemini_wait"} =>
             /\ message_data = <<>>
             /\ json_str = <<>>
             /\ sends_in_cycle = 0
             /\ bc_result # "running")
    /\ [](npc \in {"summarize", "gemini_wait"} => RawTruthy(raw))
    /\ [](npc \in {"broadcast", "send", "send_wait"} =>
             /\ RawTruthy(raw)
             /\ llm_attempts = 1
             /\ llm_outcome = "content"
             /\ message_data # <<>>)
    /\ [](npc \in {"send", "send_wait"} =>
             /\ json_str # <<>>
             /\ bc_result = "running")
    /\ [][cpc' = "fetch" => (cpc \in {"sleep", "fetch"} \/ c_startup)]_vars
    /\ [][(cpc' = "sleep" /\ cpc = "closing") => c_conn' = "closed"]_vars
    /\ [](cpc \in {"fetch", "summarize", "gemini_wait"} =>
             /\ c_calls_in_cycle = 0
             /\ c_conn # "open")
    /\ [](cpc \in {"summarize", "gemini_wait"} => RawTruthy(c_raw))
    /\ [](c_calls_in_cycle <= 1 /\ c_llm_attempts <= 1)

\* A broadcast to two clients has completed and the loop is at its sleep.
C19_Witness ==
    /\ npc = "sleep"
    /\ bc_result = "done"
    /\ Cardinality(bc_snapshot) = 2
    /\ sends_in_cycle = 2
    /\ ~first_cycle

\* C20: normalization is the same in both programs.  For the Summarizer
\* output a broadcast with at least one client has been called with, the
\* one-shot path gives the same result: either both produce the same text for
\* the wire, or both fail the same way, the exception leaving the delivery
\* call in both; never does one raise out of its call where the other
\* delivers or drops the message.
C20_SameNormalization ==
    ( /\ llm_outcome = "content"
      /\ npc \in {"send", "send_wait", "sleep", "crashed"}
      /\ bc_result # "noop" ) =>
        LET n == NormalizeOneshot(message_data)
        IN  IF n.err = "none"
            THEN /\ json_str = json_dumps(n.payload)
                 /\ crash \notin {"TypeError", "AttributeError"}
            ELSE /\ crash = n.err
                 /\ OneshotExcept(n.err) = "escapes"

=============================================================================
